---- MODULE Spec2Model ----
(***************************************************************************)
(* A model of release_generator: the firmware store publisher              *)
(* (firmware_store_pusher.py), the release workflow (release.py) and the   *)
(* remote collaborators they drive (gitlab_rep.py, generator_tag.py).      *)
(* The version codec (release_formatter.py) and the request parser         *)
(* (release_parser.py) are modelled on text, character by character.       *)
(***************************************************************************)
EXTENDS Integers, Sequences, FiniteSets, TLC

(***************************************************************************)
(* Bounds of the model.                                                    *)
(***************************************************************************)
NumHandles == 2
\* close() calls (explicit ones and the finalizer's) modelled per handle
MaxCloses == 2
\* temporary directories tempfile.mkdtemp hands out
MaxClones == 2
\* seconds the clock may advance
MaxClock == 1
\* push_release calls of the concurrent callers
MaxPublishes == 3

(***************************************************************************)
(* Program constants.                                                      *)
(***************************************************************************)
_MAX_COMPONENT_VALUE == 255
_MAX_VARIANT == 16
_MAX_MINOR == 15

\* the version definitions (defs_data) of the formatter tests
ProjId == 1
MajorVer == 2
MinorVer == 3
RevisionVer == 4

(***************************************************************************)
(* Version codec (release_formatter.py).                                   *)
(***************************************************************************)
RECURSIVE Pow2(_)
Pow2(n) == IF n = 0 THEN 1 ELSE 2 * Pow2(n - 1)

Min(a, b) == IF a <= b THEN a ELSE b

\* (packed_variant << 4) | minor_ver; minor_ver < 16, so the or is a sum
CalcMinorNoClamp(variant_num, minor_ver) == (variant_num - 1) * Pow2(4) + minor_ver

_calc_minor(variant_num, minor_ver) ==
    (Min(variant_num, _MAX_VARIANT - 1) - 1) * Pow2(4) + minor_ver

\* A call of _calc_minor: ValueError (ok = FALSE) outside [1, 16] x [1, 15]
NoResult == [ok |-> FALSE, value |-> 0]

CalcMinorWideVariant(variant_num, minor_ver) ==
    IF ~(1 <= variant_num /\ variant_num <= _MAX_VARIANT + 1) THEN NoResult
    ELSE IF ~(1 <= minor_ver /\ minor_ver <= _MAX_MINOR) THEN NoResult
    ELSE [ok |-> TRUE, value |-> _calc_minor(variant_num, minor_ver)]

calc_minor_call(variant_num, minor_ver) ==
    IF ~(1 <= variant_num /\ variant_num <= _MAX_VARIANT) THEN NoResult
    ELSE IF ~(1 <= minor_ver /\ minor_ver <= _MAX_MINOR) THEN NoResult
    ELSE [ok |-> TRUE, value |-> _calc_minor(variant_num, minor_ver)]

\* A tag name as its fields; rel is the "-release" suffix.
make_tag_name(hard_num, variant_num, is_service_firmware) ==
    [proj  |-> ProjId,
     major |-> MajorVer,
     minor |-> _calc_minor(variant_num, MinorVer),
     hard  |-> hard_num,
     rev   |-> IF is_service_firmware THEN _MAX_COMPONENT_VALUE ELSE RevisionVer,
     rel   |-> FALSE]

ReleaseTag(tag) == [tag EXCEPT !.rel = TRUE]

InRangeBelow(v) == 0 < v /\ v < _MAX_COMPONENT_VALUE

InRange(v) == 0 < v /\ v <= _MAX_COMPONENT_VALUE

validate_tag_string(tag) ==
    /\ InRange(tag.proj)
    /\ InRange(tag.major)
    /\ InRange(tag.minor)
    /\ InRange(tag.hard)
    /\ InRange(tag.rev)

(***************************************************************************)
(* The version codec on text (release_formatter.py, release.py).  A string *)
(* is a sequence of characters.                                            *)
(***************************************************************************)
\* The characters \d matches in a str pattern: the ASCII digits and the other
\* decimal digits of Unicode, here ARABIC-INDIC DIGIT THREE (U+0663).
AsciiDigits == <<"0", "1", "2", "3", "4", "5", "6", "7", "8", "9">>
ArabicThree == "u0663"
IsAsciiDigit(c) == \E d \in 1..10 : AsciiDigits[d] = c
IsDigit(c) == IsAsciiDigit(c) \/ c = ArabicThree

\* int() of one digit
DigitValue(c) ==
    IF c = ArabicThree THEN 3 ELSE (CHOOSE d \in 1..10 : AsciiDigits[d] = c) - 1

\* int() of a string of digits
RECURSIVE IntOf(_)
IntOf(ds) ==
    IF ds = <<>> THEN 0
    ELSE 10 * IntOf(SubSeq(ds, 1, Len(ds) - 1)) + DigitValue(ds[Len(ds)])

\* str() of a natural number, as "{n}" in an f-string renders it
RECURSIVE Dec(_)
Dec(n) ==
    IF n < 10 THEN <<AsciiDigits[n + 1]>>
    ELSE Dec(n \div 10) \o <<AsciiDigits[(n % 10) + 1]>>

\* "{n:03d}": zeros on the left up to a width of three, never a cut
ZeroFillNone(ds, width) == ds

RECURSIVE ZeroFill(_, _)
ZeroFill(ds, width) == IF Len(ds) >= width THEN ds ELSE ZeroFill(<<"0">> \o ds, width)

RevMark == <<"-", "R", "e", "v">>
ReleaseSuffix == <<"-", "r", "e", "l", "e", "a", "s", "e">>
BtlBin == <<".", "b", "t", "l", ".", "b", "i", "n">>

\* A call that returns a string, or raises ValueError (ok = FALSE)
NoString == [ok |-> FALSE, value |-> <<>>]

\* The revision of the tag is 255 for service firmware.
make_tag_name_from_dict(json_data, defs_data) ==
    LET revision_ver == IF json_data.is_service_firmware THEN _MAX_COMPONENT_VALUE
                        ELSE defs_data.revision_ver
        minor == calc_minor_call(json_data.variant_num, defs_data.minor_ver)
    IN IF ~minor.ok THEN NoString
       ELSE [ok |-> TRUE,
             value |-> <<"v">> \o Dec(defs_data.proj_id) \o <<".">>
                           \o Dec(defs_data.major_ver) \o <<".">>
                           \o Dec(minor.value) \o <<".">>
                           \o Dec(json_data.hard_num) \o RevMark
                           \o Dec(revision_ver)]

make_container_name_from_dict(json_data, defs_data) ==
    LET minor == calc_minor_call(json_data.variant_num, defs_data.minor_ver)
    IN IF ~minor.ok THEN NoString
       ELSE [ok |-> TRUE,
             value |-> Dec(defs_data.proj_id) \o <<".">>
                           \o ZeroFill(Dec(defs_data.major_ver), 3) \o <<".">>
                           \o ZeroFill(Dec(minor.value), 3) \o <<".">>
                           \o ZeroFill(Dec(json_data.hard_num), 3) \o BtlBin]

\* s has the literal lit at position i
At(s, i, lit) ==
    /\ i + Len(lit) - 1 <= Len(s)
    /\ SubSeq(s, i, i + Len(lit) - 1) = lit

\* \d+ is greedy: the last position of the run of digits that starts at i
\* (i - 1 when there is no digit at i)
RECURSIVE RunEnd(_, _)
RunEnd(s, i) ==
    IF i <= Len(s) /\ IsDigit(s[i]) THEN RunEnd(s, i + 1) ELSE i - 1

NoMatch ==
    [matched |-> FALSE, proj |-> <<>>, major |-> <<>>, minor |-> <<>>,
     hard |-> <<>>, revision |-> <<>>, suffix |-> FALSE]

\* The groups of v<d+>.<d+>.<d+>.<d+>-Rev<d+>(-release)?$ in s (_TAG_RE).
\* Every run of digits is followed by a character that is not a digit, so
\* the greedy runs give the only possible match.  After the revision comes
\* nothing or "-release", then the end of the string; $ also matches just
\* before a newline that ends the string.
TagShape(s) ==
    LET e1 == RunEnd(s, 2)
        e2 == RunEnd(s, e1 + 2)
        e3 == RunEnd(s, e2 + 2)
        e4 == RunEnd(s, e3 + 2)
        e5 == RunEnd(s, e4 + 5)
        rest == SubSeq(s, e5 + 1, Len(s))
    IN IF /\ At(s, 1, <<"v">>)
          /\ e1 >= 2 /\ At(s, e1 + 1, <<".">>)
          /\ e2 >= e1 + 2 /\ At(s, e2 + 1, <<".">>)
          /\ e3 >= e2 + 2 /\ At(s, e3 + 1, <<".">>)
          /\ e4 >= e3 + 2 /\ At(s, e4 + 1, RevMark)
          /\ e5 >= e4 + 5
          /\ rest \in {<<>>, ReleaseSuffix, <<"\n">>, ReleaseSuffix \o <<"\n">>}
       THEN [matched |-> TRUE,
             proj |-> SubSeq(s, 2, e1),
             major |-> SubSeq(s, e1 + 2, e2),
             minor |-> SubSeq(s, e2 + 2, e3),
             hard |-> SubSeq(s, e3 + 2, e4),
             revision |-> SubSeq(s, e4 + 5, e5),
             suffix |-> At(s, e5 + 1, ReleaseSuffix)]
       ELSE NoMatch

Groups(m) == <<m.proj, m.major, m.minor, m.hard, m.revision>>

\* validate_tag_string on text
validate_tag_str(s) ==
    LET m == TagShape(s)
    IN /\ m.matched
       /\ \A g \in 1..5 : InRange(IntOf(Groups(m)[g]))

\* 25[0-5]|2[0-4]\d|1\d\d|[1-9]\d? against a whole run of digits
Octet(ds) ==
    \/ Len(ds) = 3 /\ ds[1] = "2" /\ ds[2] = "5"
                   /\ ds[3] \in {"0", "1", "2", "3", "4", "5"}
    \/ Len(ds) = 3 /\ ds[1] = "2" /\ ds[2] \in {"0", "1", "2", "3", "4"}
    \/ Len(ds) = 3 /\ ds[1] = "1"
    \/ Len(ds) \in {1, 2} /\ IsAsciiDigit(ds[1]) /\ ds[1] # "0"

\* _TAG_VRANGE_RE.match on text
_TAG_VRANGE_RE(s) ==
    LET m == TagShape(s)
    IN /\ m.matched
       /\ \A g \in 1..5 : Octet(Groups(m)[g])

(***************************************************************************)
(* The release descriptor (release_parser.py).  A request is the JSON      *)
(* object: the required field it lacks, if any, its service flag and its   *)
(* targets, each with the keys it has; the definitions are the #define     *)
(* values found in defs.h and the name of the define that is not there.    *)
(***************************************************************************)
\* parse_defs: ValueError for a define that is not found or a minor version
\* outside 1..15
parse_defs(defs_text) ==
    IF defs_text.absent # "none" THEN [ok |-> FALSE, versions |-> defs_text.values]
    ELSE IF ~(1 <= defs_text.values.minor_ver /\ defs_text.values.minor_ver <= 15)
    THEN [ok |-> FALSE, versions |-> defs_text.values]
    ELSE [ok |-> TRUE, versions |-> defs_text.values]

\* parse: the descriptor's targets, or ValueError (ok = FALSE)
parse(json_data, defs_text) ==
    LET defs == parse_defs(defs_text)
        target_json(target) ==
            [hard_num |-> target.hard_num, variant_num |-> target.variant_num,
             is_service_firmware |-> json_data.is_service_firmware]
        tag_name(target) == make_tag_name_from_dict(target_json(target), defs.versions)
        container_name(target) ==
            make_container_name_from_dict(target_json(target), defs.versions)
        raises(target) ==
            \/ target.keys # {"hard_num", "variant_num"}
            \/ ~tag_name(target).ok
            \/ ~container_name(target).ok
        n == Len(json_data.targets)
    IN IF json_data.missing # "none" THEN [ok |-> FALSE, targets |-> <<>>]
       ELSE IF json_data.targets = <<>> THEN [ok |-> FALSE, targets |-> <<>>]
       ELSE IF ~defs.ok THEN [ok |-> FALSE, targets |-> <<>>]
       ELSE IF \E i \in 1..n : raises(json_data.targets[i])
       THEN [ok |-> FALSE, targets |-> <<>>]
       ELSE [ok |-> TRUE,
             targets |->
                 [i \in 1..n |->
                     LET target == json_data.targets[i]
                     IN [target_name |-> <<"fw", "_hard", target.hard_num,
                                           "_var", target.variant_num>>,
                         tag_name |-> tag_name(target).value,
                         container_name |-> container_name(target).value,
                         hard_num |-> target.hard_num,
                         variant_num |-> target.variant_num]]]

(***************************************************************************)
(* Targets of a request and the files a build leaves for them.             *)
(***************************************************************************)
HardNums == {0, 1}
VariantNums == {1, 15, 16}
Target(h, v) == [hard |-> h, variant |-> v]
TargetPool == {Target(1, 1), Target(1, 15), Target(1, 16), Target(0, 1)}

TagOf(t) == make_tag_name(t.hard, t.variant, FALSE)

\* File names: <<kind, hard_num, variant_num>>.
BinName(t) == <<"bin", t.hard, t.variant>>
MapName(t) == <<"map", t.hard, t.variant>>
ContainerName(t) == <<"btl", t.hard, _calc_minor(t.variant, MinorVer)>>
ChecksumsName == <<"checksums.txt", 0, 0>>
BuildInfoName == <<"build-info.json", 0, 0>>

TargetFiles(t) == {BinName(t), MapName(t), ContainerName(t)}

\* The position of a name in Python's string order: the container name starts
\* with a digit, then "build-info.json", "checksums.txt", then the
\* "<project>_hard<h>_var<v>.bin" and ".map" files of the project "fw".
KindRank(k) ==
    CASE k = "btl" -> 0
      [] k = "build-info.json" -> 1
      [] k = "checksums.txt" -> 2
      [] OTHER -> 3

NameKey(n) ==
    KindRank(n[1]) * 1000000 + n[2] * 2000 + n[3] * 2
        + (IF n[1] = "map" THEN 1 ELSE 0)

RECURSIVE SortNames(_)
SortNames(S) ==
    IF S = {} THEN <<>>
    ELSE LET m == CHOOSE x \in S : \A y \in S : NameKey(x) <= NameKey(y)
         IN <<m>> \o SortNames(S \ {m})

(***************************************************************************)
(* File contents.  Every content has the same shape, so that any two can   *)
(* be compared: a binary (n), a checksum manifest (lines) or a build-info  *)
(* record (tag, at).                                                       *)
(***************************************************************************)
NoTag == [proj |-> 0, major |-> 0, minor |-> 0, hard |-> 0, rev |-> 0, rel |-> FALSE]

BinContent(c) == [k |-> "bin", n |-> c, lines |-> <<>>, tag |-> NoTag, at |-> 0]
ManifestContent(ls) == [k |-> "sums", n |-> 0, lines |-> ls, tag |-> NoTag, at |-> 0]
\* build_info: source_project, pipeline_id and commit come from the
\* environment and are fixed; tag and built_at (UTC, to the second) vary.
BuildInfoContent(tag_name, t) ==
    [k |-> "info", n |-> 0, lines |-> <<>>, tag |-> tag_name, at |-> t]

\* hashlib.sha256: a function of the content, different for different contents
Sha256(content) == [sha |-> content]

\* A folder: a function from the names of its files to their contents.
EmptyFolder == [n \in {} |-> BinContent(0)]
WriteFile(folder, name, content) ==
    [n \in (DOMAIN folder) \cup {name} |-> IF n = name THEN content ELSE folder[n]]

FolderNames == {TagOf(t) : t \in TargetPool} \cup {ReleaseTag(TagOf(t)) : t \in TargetPool}
\* A tree: the folders of a working copy, of its index, or of a commit.
EmptyTree == [f \in FolderNames |-> EmptyFolder]

\* _write_checksums: one "<sha256>  <name>" line per file of the folder other
\* than checksums.txt, in sorted order
IsNotChecksums(n) == n # ChecksumsName

ManifestLines(folder) ==
    LET names == SelectSeq(SortNames(DOMAIN folder), IsNotChecksums)
    IN [i \in 1..Len(names) |-> <<Sha256(folder[names[i]]), names[i]>>]

_write_checksums(folder) ==
    WriteFile(folder, ChecksumsName, ManifestContent(ManifestLines(folder)))

(***************************************************************************)
(* State.                                                                  *)
(***************************************************************************)
VARIABLES
    repos,       \* _shared_repos: key -> NoEntry or [tmp, refs]
    disk,        \* temporary directory -> "absent" | "repo" | "junk"
    wc,          \* temporary directory -> [work, index, head] trees of the clone
    store,       \* key -> the tree at the head of the remote store branch
    nextTmp,     \* the next directory tempfile.mkdtemp hands out
    hpc,         \* handle -> where its caller is
    hkey,        \* handle -> self._key
    call,        \* handle -> the arguments and locals of its push_release call
    hres,        \* handle -> how its last push_release ended
    closes,      \* handle -> close() calls made on it so far
    dead,        \* handle -> its finalizer has run
    now,         \* the clock, in seconds
    buildDir,    \* the local build directory: name -> content (n = 0: no file)
    cloneTries,  \* key -> git clone runs since its entry was created
    cloneDone,   \* key -> git clone runs that succeeded since then
    published,   \* <<key, folder, files>> of the publishes that returned normally
    pubCount,    \* push_release calls of the concurrent callers so far
    req,         \* the parsed request: [upgrade, branch, targets]
    env,         \* the environment: [allow, store]
    tags,        \* the remote's tags: tag name -> commit id (0: no such tag)
    head,        \* the commit at the head of the release branch
    changelog,   \* the remote CHANGELOG.md: the release tags of its entries
    wpc,         \* where main() is
    wi,          \* the index of the target the current loop is at
    failKind,    \* why main() aborted
    relCommit,   \* release_commit_hash
    trace,       \* what the current run did so far, in order
    run,         \* the number of the current run
    prevOutcome, \* how the previous run of the same request ended
    codec,       \* the calls of _calc_minor under check: arguments and results
    fmt,         \* the formatter calls under check: arguments, results, pc
    prs,         \* the ReleaseParser.parse call under check
    msg          \* the commit message under check: the texts and the lines built

poolVars == <<repos, disk, wc, store, nextTmp>>
handleVars == <<hpc, hkey, call, hres, closes, dead>>
envVars == <<now, buildDir>>
ghostVars == <<cloneTries, cloneDone, published, pubCount>>
remoteVars == <<tags, head, changelog>>
wfVars == <<req, env, wpc, wi, failKind, relCommit, trace, run, prevOutcome>>
codecVars == <<codec, fmt, prs, msg>>
vars == <<poolVars, handleVars, envVars, ghostVars, remoteVars, wfVars, codecVars>>

Keys == {"k1", "k2"}
Handles == 0..NumHandles
\* handle 0 is the workflow's; the others belong to concurrent callers
W == 0
Callers == 1..NumHandles
Paths == 1..MaxClones

NoPath == 0
NoEntry == [present |-> FALSE, tmp |-> NoPath, refs |-> 0]
EmptyWc == [work |-> EmptyTree, index |-> EmptyTree, head |-> EmptyTree]
NoCall == [rel |-> NoTag, srcs |-> {}, tmp |-> NoPath, files |-> EmptyFolder,
           prior |-> FALSE]

\* The steps of push_release that change the working copy or the remote.
MutatingPcs == {"copy", "sums", "info", "add", "diff", "commit", "push"}

(***************************************************************************)
(* FirmwareStorePusher: the shared clone pool.                             *)
(***************************************************************************)
\* __init__, under the lock: create the entry or count one more reference
AcquireNoCount(entry) ==
    IF ~entry.present THEN [present |-> TRUE, tmp |-> NoPath, refs |-> 1]
    ELSE entry

Acquire(entry) ==
    IF ~entry.present THEN [present |-> TRUE, tmp |-> NoPath, refs |-> 1]
    ELSE [entry EXCEPT !.refs = @ + 1]

\* _ensure_clone: the entry already names a working copy
HasClone(entry) == entry.tmp # NoPath

\* close: the entry is dropped once its count is used up
DropEntry(refs) == refs <= 0

\* close: shutil.rmtree of the working copy
KeepTree(d, p) == d

\* shutil.rmtree let loose on every working copy
RmAllTrees(d, p) == [q \in DOMAIN d |-> "absent"]

RmTree(d, p) == IF p = NoPath THEN d ELSE [d EXCEPT ![p] = "absent"]

Construct(h, k) ==
    /\ hpc[h] = "unborn"
    /\ hpc' = [hpc EXCEPT ![h] = "idle"]
    /\ hkey' = [hkey EXCEPT ![h] = k]
    /\ repos' = [repos EXCEPT ![k] = Acquire(@)]
    /\ cloneTries' = IF repos[k].present THEN cloneTries ELSE [cloneTries EXCEPT ![k] = 0]
    /\ cloneDone' = IF repos[k].present THEN cloneDone ELSE [cloneDone EXCEPT ![k] = 0]
    /\ UNCHANGED <<disk, wc, store, nextTmp, call, hres, closes, dead, envVars,
                   published, pubCount>>

\* close(), under the lock; what it does to the pool and the disk
CloseEffect(h) ==
    LET k == hkey[h]
        entry == repos[k]
    IN IF ~entry.present
       THEN UNCHANGED <<repos, disk, wc>>
       ELSE IF DropEntry(entry.refs - 1)
            THEN /\ disk' = RmTree(disk, entry.tmp)
                 /\ wc' = IF entry.tmp = NoPath THEN wc
                          ELSE [wc EXCEPT ![entry.tmp] = EmptyWc]
                 /\ repos' = [repos EXCEPT ![k] = NoEntry]
            ELSE /\ repos' = [repos EXCEPT ![k].refs = @ - 1]
                 /\ UNCHANGED <<disk, wc>>

Close(h) ==
    /\ hpc[h] = "idle"
    /\ ~dead[h]
    /\ closes[h] < MaxCloses
    /\ CloseEffect(h)
    /\ closes' = [closes EXCEPT ![h] = @ + 1]
    /\ UNCHANGED <<store, nextTmp, hpc, hkey, call, hres, dead, envVars, ghostVars>>

\* __del__: the finalizer calls close() once more, whatever was called before
Del(h) ==
    /\ hpc[h] = "idle"
    /\ ~dead[h]
    /\ CloseEffect(h)
    /\ closes' = [closes EXCEPT ![h] = @ + 1]
    /\ dead' = [dead EXCEPT ![h] = TRUE]
    /\ UNCHANGED <<store, nextTmp, hpc, hkey, call, hres, envVars, ghostVars>>

(***************************************************************************)
(* push_release, step by step.  Only _ensure_clone runs under the lock.    *)
(***************************************************************************)
RaiseAll(h) ==
    /\ hpc' = [hpc EXCEPT ![h] = "idle"]
    /\ hres' = [x \in Handles |-> "raised"]
    /\ call' = [call EXCEPT ![h] = NoCall]

Raise(h) ==
    /\ hpc' = [hpc EXCEPT ![h] = "idle"]
    /\ hres' = [hres EXCEPT ![h] = "raised"]
    /\ call' = [call EXCEPT ![h] = NoCall]

Goto(h, pc) ==
    /\ hpc' = [hpc EXCEPT ![h] = pc]
    /\ UNCHANGED <<hres, call>>

Return(h, res) ==
    /\ hpc' = [hpc EXCEPT ![h] = "idle"]
    /\ hres' = [hres EXCEPT ![h] = res]
    /\ call' = [call EXCEPT ![h] = NoCall]
    /\ published' = published \cup {<<hkey[h], call[h].rel, call[h].files>>}

\* push_release up to the call of _ensure_clone
PushBegin(h, rel, srcs) ==
    /\ hpc[h] = "idle"
    /\ closes[h] = 0
    /\ ~dead[h]
    /\ IF srcs = {}
       THEN /\ hres' = [hres EXCEPT ![h] = "nothing"]
            /\ UNCHANGED <<hpc, call>>
       ELSE /\ hpc' = [hpc EXCEPT ![h] = "clone"]
            /\ hres' = [hres EXCEPT ![h] = "none"]
            /\ call' = [call EXCEPT ![h] = [NoCall EXCEPT !.rel = rel, !.srcs = srcs]]
    /\ UNCHANGED <<poolVars, hkey, closes, dead, envVars, cloneTries, cloneDone,
                   published>>

\* _ensure_clone, the whole of it under the lock
EnsureClone(h) ==
    LET k == hkey[h]
        entry == repos[k]
    IN
    /\ hpc[h] = "clone"
    /\ \/ /\ ~entry.present              \* KeyError
          /\ Raise(h)
          /\ UNCHANGED <<poolVars, cloneTries, cloneDone>>
       \/ /\ entry.present
          /\ HasClone(entry)
          /\ hpc' = [hpc EXCEPT ![h] = "copy"]
          /\ call' = [call EXCEPT ![h].tmp = entry.tmp]
          /\ UNCHANGED <<poolVars, hres, cloneTries, cloneDone>>
       \/ /\ entry.present
          /\ ~HasClone(entry)
          /\ nextTmp <= MaxClones
          /\ disk' = [disk EXCEPT ![nextTmp] = "repo"]
          /\ wc' = [wc EXCEPT ![nextTmp] =
                       [work |-> store[k], index |-> store[k], head |-> store[k]]]
          /\ repos' = [repos EXCEPT ![k].tmp = nextTmp]
          /\ nextTmp' = nextTmp + 1
          /\ hpc' = [hpc EXCEPT ![h] = "copy"]
          /\ call' = [call EXCEPT ![h].tmp = nextTmp]
          /\ cloneTries' = [cloneTries EXCEPT ![k] = @ + 1]
          /\ cloneDone' = [cloneDone EXCEPT ![k] = @ + 1]
          /\ UNCHANGED <<store, hres>>
       \/ /\ entry.present                \* git clone fails: tmp is removed
          /\ ~HasClone(entry)
          /\ cloneTries' = [cloneTries EXCEPT ![k] = @ + 1]
          /\ Raise(h)
          /\ UNCHANGED <<poolVars, cloneDone>>
    /\ UNCHANGED <<hkey, closes, dead, envVars, published, pubCount>>

\* The source files that exist, with their contents.
ExistingFiles(srcs) ==
    [n \in {m \in srcs : buildDir[m].n # 0} |-> buildDir[n]]

RECURSIVE CopyInto(_, _)
CopyInto(folder, files) ==
    IF DOMAIN files = {} THEN folder
    ELSE LET n == CHOOSE m \in DOMAIN files : TRUE
         IN CopyInto(WriteFile(folder, n, files[n]),
                     [m \in (DOMAIN files) \ {n} |-> files[m]])

\* os.makedirs(dest_dir, exist_ok=True) and the copy loop
CopyFiles(h) ==
    LET p == call[h].tmp
        rel == call[h].rel
        files == ExistingFiles(call[h].srcs)
    IN
    /\ hpc[h] = "copy"
    /\ disk' = IF disk[p] = "absent" THEN [disk EXCEPT ![p] = "junk"] ELSE disk
    /\ wc' = IF disk[p] = "repo"
             THEN [wc EXCEPT ![p].work[rel] = CopyInto(@, files)]
             ELSE wc
    /\ hpc' = [hpc EXCEPT ![h] = "sums"]
    /\ call' = [call EXCEPT ![h].files = files,
                            ![h].prior = <<hkey[h], rel, files>> \in published]
    /\ UNCHANGED <<repos, store, nextTmp, hkey, hres, closes, dead, envVars, ghostVars>>

WriteChecksums(h) ==
    LET p == call[h].tmp
        rel == call[h].rel
    IN
    /\ hpc[h] = "sums"
    /\ IF disk[p] = "absent"
       THEN Raise(h) /\ UNCHANGED wc
       ELSE /\ Goto(h, "info")
            /\ wc' = IF disk[p] = "repo"
                     THEN [wc EXCEPT ![p].work[rel] = _write_checksums(@)]
                     ELSE wc
    /\ UNCHANGED <<repos, disk, store, nextTmp, hkey, closes, dead, envVars, ghostVars>>

\* build-info.json; built_at is the clock read now, which never runs backwards
WriteBuildInfo(h) ==
    LET p == call[h].tmp
        rel == call[h].rel
    IN
    /\ hpc[h] = "info"
    /\ IF disk[p] = "absent"
       THEN Raise(h) /\ UNCHANGED <<wc, now>>
       ELSE /\ Goto(h, "add")
            /\ now' \in now..MaxClock
            /\ wc' = IF disk[p] = "repo"
                     THEN [wc EXCEPT ![p].work[rel] =
                              WriteFile(@, BuildInfoName, BuildInfoContent(rel, now'))]
                     ELSE wc
    /\ UNCHANGED <<repos, disk, store, nextTmp, hkey, closes, dead, buildDir, ghostVars>>

\* git add .
GitAdd(h) ==
    LET p == call[h].tmp
    IN
    /\ hpc[h] = "add"
    /\ IF disk[p] # "repo"
       THEN Raise(h) /\ UNCHANGED wc
       ELSE /\ Goto(h, "diff")
            /\ wc' = [wc EXCEPT ![p].index = wc[p].work]
    /\ UNCHANGED <<repos, disk, store, nextTmp, hkey, closes, dead, envVars, ghostVars>>

\* git diff --cached --quiet: return code 0 when the index is the head's tree
NothingStaged(w) == w.index = w.head

GitDiff(h) ==
    LET p == call[h].tmp
    IN
    /\ hpc[h] = "diff"
    /\ \/ /\ disk[p] = "absent"
          /\ Raise(h)
          /\ UNCHANGED published
       \/ /\ disk[p] = "junk"
          /\ Goto(h, "commit")
          /\ UNCHANGED published
       \/ /\ disk[p] = "repo"
          /\ NothingStaged(wc[p])
          /\ Return(h, "noop")
       \/ /\ disk[p] = "repo"
          /\ ~NothingStaged(wc[p])
          /\ Goto(h, "commit")
          /\ UNCHANGED published
    /\ UNCHANGED <<poolVars, hkey, closes, dead, envVars, cloneTries, cloneDone,
                   pubCount>>

GitCommit(h) ==
    LET p == call[h].tmp
    IN
    /\ hpc[h] = "commit"
    /\ \/ /\ disk[p] = "repo"
          /\ ~NothingStaged(wc[p])
          /\ wc' = [wc EXCEPT ![p].head = wc[p].index]
          /\ Goto(h, "push")
       \/ /\ Raise(h)                    \* not a repository, nothing to commit, or git fails
          /\ UNCHANGED wc
    /\ UNCHANGED <<repos, disk, store, nextTmp, hkey, closes, dead, envVars,
                   cloneTries, cloneDone, published, pubCount>>

GitPush(h) ==
    LET p == call[h].tmp
    IN
    /\ hpc[h] = "push"
    /\ \/ /\ disk[p] = "repo"
          /\ store' = [store EXCEPT ![hkey[h]] = wc[p].head]
          /\ Return(h, "ok")
       \/ /\ Raise(h)
          /\ UNCHANGED <<store, published>>
    /\ UNCHANGED <<repos, disk, wc, nextTmp, hkey, closes, dead, envVars,
                   cloneTries, cloneDone, pubCount>>

PushStep(h) ==
    \/ EnsureClone(h)
    \/ CopyFiles(h)
    \/ WriteChecksums(h)
    \/ WriteBuildInfo(h)
    \/ GitAdd(h)
    \/ GitDiff(h)
    \/ GitCommit(h)
    \/ GitPush(h)

(***************************************************************************)
(* The remote source-control host (gitlab_rep.py, generator_tag.py).       *)
(***************************************************************************)
TagNames == FolderNames

\* get_tag: the tag's URL, or None
get_tag_never(name) == FALSE

get_tag(name) == tags[name] # 0

\* get_tag_commit_hash
BranchHeadHash(name) == head

get_tag_commit_hash(name) == tags[name]

\* GeneratorTag.generate: create the tag at ref unless it exists
GenerateAtPriorCommit(tgs, name, ref) ==
    IF tgs[name] # 0 THEN tgs ELSE [tgs EXCEPT ![name] = ref - 1]

GenerateNothing(tgs, name, ref) == tgs

Generate(tgs, name, ref) ==
    IF tgs[name] # 0 THEN tgs ELSE [tgs EXCEPT ![name] = ref]

(***************************************************************************)
(* The release workflow (release.py).                                      *)
(***************************************************************************)
MaxTargets == 2
MaxRuns == 2

\* Branch names, as the pieces the pattern ^(release|hotfix)(/.*)?$ tells apart.
Branches == {<<"release">>, <<"hotfix", "/", "1.0">>, <<"releases">>, <<"dev">>}

validate_branch(b) ==
    /\ b[1] \in {"release", "hotfix"}
    /\ Len(b) = 1 \/ b[2] = "/"

\* _TAG_VRANGE_RE: every numeric group is 1..255 without a leading zero
TagVRange(tag) ==
    \A v \in {tag.proj, tag.major, tag.minor, tag.hard, tag.rev} :
        1 <= v /\ v <= 255

\* validate_tag: "format", "conflict" or "ok"
ValidateTagNoLookup(tag) ==
    IF ~TagVRange(tag) \/ ~validate_tag_string(tag) THEN "format" ELSE "ok"

ValidateTagNoFormat(tag) ==
    IF get_tag(tag) THEN "conflict" ELSE "ok"

ValidateTag(tag) ==
    IF ~TagVRange(tag) \/ ~validate_tag_string(tag) THEN "format"
    ELSE IF get_tag(tag) THEN "conflict"
    ELSE "ok"

\* validate_target: the allow-list must not be empty and must hold the target
validate_target(t) == env.allow # {} /\ t \in env.allow

NoEvent == [op |-> "none", i |-> 0, tag |-> NoTag, ref |-> 0, ok |-> TRUE]
Ev(op, i) == [NoEvent EXCEPT !.op = op, !.i = i]
TagEv(i, tag, ref) == [NoEvent EXCEPT !.op = "tag", !.i = i, !.tag = tag, !.ref = ref]

\* The operations that change something on a remote.
RemoteOps == {"tag", "commit", "changelog", "store_changelog", "store_push"}

Events(ops) == {p \in 1..Len(trace) : trace[p].op \in ops}

Fail(kind) ==
    /\ wpc' = "failed"
    /\ failKind' = kind

NumTargets == Len(req.targets)

\* The loop over info.targets is over: promotion goes on to the changelog, a
\* standard run to the commit of the binaries.
AfterLoopToCommit == IF wi < NumTargets THEN "loop" ELSE "commit"

AfterLoopSkipsRest == IF req.upgrade THEN "changelog" ELSE "commit"

AfterLoop ==
    IF wi < NumTargets THEN "loop"
    ELSE IF req.upgrade THEN "changelog" ELSE "commit"

ValidateBranch ==
    /\ wpc = "start"
    /\ IF validate_branch(req.branch)
       THEN wpc' = "loop" /\ wi' = 1 /\ UNCHANGED failKind
       ELSE Fail("branch") /\ UNCHANGED wi
    /\ UNCHANGED <<poolVars, handleVars, envVars, ghostVars, remoteVars, req, env,
                   relCommit, trace, run, prevOutcome>>
    /\ UNCHANGED codecVars

\* One pass of the loop in upgrade_to_release mode (release.py 200-215).
PromoteTarget ==
    LET t == req.targets[wi]
        beta_tag == TagOf(t)
        release_tag == ReleaseTag(beta_tag)
        checked == ValidateTag(release_tag)
    IN
    /\ wpc = "loop"
    /\ req.upgrade
    /\ \/ /\ checked # "ok"
          /\ Fail(checked)
          /\ UNCHANGED <<tags, trace, wi>>
       \/ /\ checked = "ok"
          /\ ~get_tag(beta_tag)
          /\ Fail("prereq")
          /\ UNCHANGED <<tags, trace, wi>>
       \/ /\ checked = "ok"
          /\ get_tag(beta_tag)
          /\ tags' = Generate(tags, release_tag, get_tag_commit_hash(beta_tag))
          /\ trace' = Append(trace, TagEv(wi, release_tag, tags'[release_tag]))
          /\ wi' = IF wi < NumTargets THEN wi + 1 ELSE 1
          /\ wpc' = AfterLoop
          /\ UNCHANGED failKind
       \/ /\ checked = "ok"               \* the host refuses the tag
          /\ get_tag(beta_tag)
          /\ Fail("external")
          /\ UNCHANGED <<tags, trace, wi>>
    /\ UNCHANGED <<poolVars, handleVars, envVars, ghostVars, head, changelog, req, env,
                   relCommit, run, prevOutcome>>
    /\ UNCHANGED codecVars

\* What a build leaves in the build directory.
Built(dir, t) ==
    [n \in DOMAIN dir |-> IF n \in TargetFiles(t) THEN BinContent(1) ELSE dir[n]]

\* One pass of the loop in normal mode (release.py 217-239).
StandardTarget ==
    LET t == req.targets[wi]
        checked == ValidateTag(TagOf(t))
    IN
    /\ wpc = "loop"
    /\ ~req.upgrade
    /\ \/ /\ ~validate_target(t)
          /\ Fail("target")
          /\ UNCHANGED <<trace, wi, buildDir>>
       \/ /\ validate_target(t)
          /\ checked # "ok"
          /\ Fail(checked)
          /\ UNCHANGED <<trace, wi, buildDir>>
       \/ /\ validate_target(t)
          /\ checked = "ok"
          /\ buildDir' = Built(buildDir, t)
          /\ trace' = Append(trace,
                 [Ev("build", wi) EXCEPT !.tag = TagOf(t),
                                         !.ok = t \in env.allow /\ ~get_tag(TagOf(t))])
          /\ wi' = IF wi < NumTargets THEN wi + 1 ELSE 1
          /\ wpc' = AfterLoop
          /\ UNCHANGED failKind
       \/ /\ validate_target(t)           \* cmake fails
          /\ checked = "ok"
          /\ trace' = Append(trace,
                 [Ev("build", wi) EXCEPT !.tag = TagOf(t),
                                         !.ok = t \in env.allow /\ ~get_tag(TagOf(t))])
          /\ Fail("build")
          /\ UNCHANGED <<wi, buildDir>>
    /\ UNCHANGED <<poolVars, handleVars, now, ghostVars, remoteVars, req, env,
                   relCommit, run, prevOutcome>>
    /\ UNCHANGED codecVars

\* commit_and_push_binaries: a commit when something is staged, then the push.
CommitBinaries ==
    /\ wpc = "commit"
    /\ \/ /\ head' = head + 1             \* the binaries differ from HEAD
          /\ relCommit' = head + 1
          /\ trace' = Append(trace, [Ev("commit", 0) EXCEPT !.ref = head + 1])
          /\ wpc' = "tagging"
          /\ UNCHANGED failKind
       \/ /\ relCommit' = head            \* nothing staged: the commit is skipped
          /\ wpc' = "tagging"
          /\ UNCHANGED <<head, trace, failKind>>
       \/ /\ Fail("external")             \* git fails
          /\ UNCHANGED <<head, relCommit, trace>>
    /\ UNCHANGED <<poolVars, handleVars, envVars, ghostVars, tags, changelog, req, env,
                   wi, run, prevOutcome>>
    /\ UNCHANGED codecVars

\* One pass of the tagging loop of a standard run (release.py 322-339).
TagTarget ==
    LET tag_name == TagOf(req.targets[wi])
    IN
    /\ wpc = "tagging"
    /\ \/ /\ tags' = Generate(tags, tag_name, relCommit)
          /\ trace' = IF get_tag(tag_name) THEN trace
                      ELSE Append(trace, TagEv(wi, tag_name, relCommit))
          /\ wi' = IF wi < NumTargets THEN wi + 1 ELSE 1
          /\ wpc' = IF wi < NumTargets THEN "tagging" ELSE "publish"
          /\ UNCHANGED failKind
       \/ /\ ~get_tag(tag_name)           \* the host refuses the tag
          /\ Fail("external")
          /\ UNCHANGED <<tags, trace, wi>>
    /\ UNCHANGED <<poolVars, handleVars, envVars, ghostVars, head, changelog, req, env,
                   relCommit, run, prevOutcome>>
    /\ UNCHANGED codecVars

\* CHANGELOG.md, line by line: the title, a version heading, anything else.
TitleLine == [kind |-> "title", tag |-> NoTag]
OtherLine == [kind |-> "other", tag |-> NoTag]
Heading(tag) == [kind |-> "heading", tag |-> tag]

\* generate_changelog_entries: one heading per target, in request order
NewEntries == [i \in 1..NumTargets |-> Heading(ReleaseTag(TagOf(req.targets[i])))]

\* The entries written over the title line instead of after it.
ReplaceTitle(content, entries, i) == entries \o Tail(content)

RECURSIVE InsertAfterTitle(_, _, _)
InsertAfterTitle(content, entries, i) ==
    IF i > Len(content) THEN content
    ELSE IF content[i].kind = "title"
         THEN SubSeq(content, 1, i) \o entries \o SubSeq(content, i + 1, Len(content))
         ELSE InsertAfterTitle(content, entries, i + 1)

\* update_changelog_and_push: the content written to the branch
UpdatedChangelog(old) ==
    InsertAfterTitle(IF old = <<>> THEN <<TitleLine>> ELSE old, NewEntries, 1)

\* rep.merge_request_to_default: GitlabRep defines no such method, so the call
\* raises AttributeError; "ok" is the outcome of the host operation the call
\* stands for (createMergeRequest), were the method there.
MergeRequestOutcomes == {"ok", "raised"}

UpdateChangelog ==
    /\ wpc = "changelog"
    /\ \/ /\ Fail("external")             \* the host fails before the file is written
          /\ UNCHANGED <<changelog, trace>>
       \/ /\ changelog' = UpdatedChangelog(changelog)
          /\ trace' = Append(trace, Ev("changelog", 0))
          /\ \E mr \in MergeRequestOutcomes :
                IF mr = "ok"
                THEN wpc' = "publish" /\ UNCHANGED failKind
                ELSE Fail("attribute")
    /\ UNCHANGED <<poolVars, handleVars, envVars, ghostVars, tags, head, req, env, wi,
                   relCommit, run, prevOutcome>>
    /\ UNCHANGED codecVars

\* The key of the store the workflow publishes to (FW_STORE_REPO_URL, FW_STORE_BRANCH).
StoreKey == "k1"

\* pusher = FirmwareStorePusher(...) when the store is configured
WfAcquire ==
    /\ wpc = "publish"
    /\ IF env.store
       THEN Construct(W, StoreKey)
       ELSE UNCHANGED <<poolVars, handleVars, envVars, ghostVars>>
    /\ wpc' = "pushing"
    /\ wi' = 1
    /\ UNCHANGED <<remoteVars, req, env, failKind, relCommit, trace, run, prevOutcome>>
    /\ UNCHANGED codecVars

\* collect_target_files: the files of the target that exist
collect_target_files(t) == {n \in TargetFiles(t) : buildDir[n].n # 0}

PublishName(t) == IF req.upgrade THEN ReleaseTag(TagOf(t)) ELSE TagOf(t)

\* One pass of the publish loop: push_release is called, or the target is skipped.
WfPushTarget ==
    LET t == req.targets[wi]
        files_to_push == collect_target_files(t)
    IN
    /\ wpc = "pushing"
    /\ wi <= NumTargets
    /\ hpc[W] \in {"unborn", "idle"}
    /\ IF files_to_push # {} /\ env.store
       THEN /\ PushBegin(W, PublishName(t), files_to_push)
            /\ trace' = Append(trace, [Ev("publish", wi) EXCEPT !.tag = PublishName(t)])
            /\ UNCHANGED pubCount
       ELSE /\ trace' = Append(trace, [Ev("skip", wi) EXCEPT !.tag = PublishName(t)])
            /\ UNCHANGED <<poolVars, handleVars, envVars, ghostVars>>
    /\ wi' = wi + 1
    /\ UNCHANGED <<remoteVars, req, env, wpc, failKind, relCommit, run, prevOutcome>>
    /\ UNCHANGED codecVars

\* except Exception around push_release: the failure is logged and the loop
\* goes on
PublishFailureAborts(raised) == IF raised THEN "failed" ELSE "pushing"

AfterPublishStep(raised) == "pushing"

\* The steps of the workflow's own push_release call; an exception is caught
\* and logged by the loop.
WfPushStep ==
    /\ wpc = "pushing"
    /\ PushStep(W)
    /\ wpc' = AfterPublishStep(hres'[W] = "raised")
    /\ trace' = IF store' # store
                THEN Append(trace, [Ev("store_push", wi - 1) EXCEPT !.tag = call[W].rel])
                ELSE IF hres'[W] = "raised"
                     THEN Append(trace, [Ev("publish_failed", wi - 1) EXCEPT !.tag = call[W].rel])
                     ELSE trace
    /\ UNCHANGED <<remoteVars, req, env, wi, failKind, relCommit, run, prevOutcome>>
    /\ UNCHANGED codecVars

\* After the loop: a promotion updates the store's changelog too (release.py
\* 298-301); whatever it raises is caught after the finally.
WfAfterPush ==
    /\ wpc = "pushing"
    /\ wi > NumTargets
    /\ hpc[W] \in {"unborn", "idle"}
    /\ wpc' = "closing"
    /\ \/ /\ req.upgrade
          /\ env.store
          /\ trace' = Append(trace, Ev("store_changelog", 0))
       \/ UNCHANGED trace
    /\ UNCHANGED <<poolVars, handleVars, envVars, ghostVars, remoteVars, req, env, wi,
                   failKind, relCommit, run, prevOutcome>>
    /\ UNCHANGED codecVars

\* The publish phase without its finally clause.
WfNoClose ==
    /\ wpc = "closing"
    /\ wpc' = "done"
    /\ UNCHANGED <<poolVars, handleVars, envVars, ghostVars, remoteVars, req, env, wi,
                   failKind, relCommit, trace, run, prevOutcome>>
    /\ UNCHANGED codecVars

\* finally: pusher.close(); then sys.exit(0)
WfClose ==
    /\ wpc = "closing"
    /\ IF env.store
       THEN Close(W)
       ELSE UNCHANGED <<poolVars, handleVars, envVars, ghostVars>>
    /\ wpc' = "done"
    /\ UNCHANGED <<remoteVars, req, env, wi, failKind, relCommit, trace, run, prevOutcome>>
    /\ UNCHANGED codecVars

\* The interpreter exits and finalizes the pusher.
WfFinalize ==
    /\ wpc = "done"
    /\ env.store
    /\ Del(W)
    /\ UNCHANGED <<remoteVars, wfVars, codecVars>>

AllNames == UNION {TargetFiles(t) : t \in TargetPool}
NoFiles == [n \in AllNames |-> BinContent(0)]
AllFiles == [n \in AllNames |-> BinContent(1)]

FreshRepos == [k \in Keys |-> NoEntry]
FreshHandles ==
    /\ hpc = [h \in Handles |-> "unborn"]
    /\ hkey = [h \in Handles |-> StoreKey]
    /\ call = [h \in Handles |-> NoCall]
    /\ hres = [h \in Handles |-> "none"]
    /\ closes = [h \in Handles |-> 0]
    /\ dead = [h \in Handles |-> FALSE]

\* The same request is run again, in a new process: the pool starts empty,
\* the remote and the disk are as the previous run left them.
StartRun ==
    /\ wpc \in {"done", "failed"}
    /\ run < MaxRuns
    /\ run' = run + 1
    /\ prevOutcome' = wpc
    /\ wpc' = "start"
    /\ wi' = 0
    /\ failKind' = "none"
    /\ relCommit' = 0
    /\ trace' = <<>>
    /\ repos' = FreshRepos
    /\ hpc' = [h \in Handles |-> "unborn"]
    /\ hkey' = [h \in Handles |-> StoreKey]
    /\ call' = [h \in Handles |-> NoCall]
    /\ hres' = [h \in Handles |-> "none"]
    /\ closes' = [h \in Handles |-> 0]
    /\ dead' = [h \in Handles |-> FALSE]
    /\ cloneTries' = [k \in Keys |-> 0]
    /\ cloneDone' = [k \in Keys |-> 0]
    /\ UNCHANGED <<disk, wc, store, nextTmp, envVars, published, pubCount,
                   remoteVars, req, env>>
    /\ UNCHANGED codecVars

(***************************************************************************)
(* Initial states.                                                         *)
(***************************************************************************)
\* The arguments _calc_minor is called with: the valid ones and their neighbours.
VariantArgs == 0..(_MAX_VARIANT + 1)
MinorArgs == 0..(_MAX_MINOR + 1)
CodecArgs == [variant_num : VariantArgs, minor_ver : MinorArgs]
ValidArgs(x) ==
    /\ 1 <= x.variant_num /\ x.variant_num <= _MAX_VARIANT
    /\ 1 <= x.minor_ver /\ x.minor_ver <= _MAX_MINOR

FmtOff ==
    [pc |-> "off",
     json_data |-> [hard_num |-> 0, variant_num |-> 0, is_service_firmware |-> FALSE],
     defs_data |-> [proj_id |-> 0, major_ver |-> 0, minor_ver |-> 0, revision_ver |-> 0],
     tag |-> NoString, container |-> NoString, valid |-> FALSE, validRel |-> FALSE,
     parts |-> [prefix |-> <<>>, first |-> <<>>, count |-> 0, mark |-> <<>>,
                rev |-> <<>>, suffix |-> <<>>],
     s |-> <<>>, accepted |-> FALSE, vrange |-> FALSE]

MsgOff == [pc |-> "off", features |-> <<>>, bug_fixes |-> <<>>, lines |-> <<>>]

PrsOff ==
    [pc |-> "off",
     json_data |-> [missing |-> "none", is_service_firmware |-> FALSE, targets |-> <<>>],
     defs_text |-> [absent |-> "none",
                    values |-> [proj_id |-> 0, major_ver |-> 0, minor_ver |-> 0,
                                revision_ver |-> 0]],
     result |-> [ok |-> FALSE, targets |-> <<>>]]

CodecOff ==
    [pc |-> "off", a |-> [variant_num |-> 0, minor_ver |-> 0],
     b |-> [variant_num |-> 0, minor_ver |-> 0], ra |-> NoResult, rb |-> NoResult]

InitPool ==
    /\ repos = FreshRepos
    /\ disk = [p \in Paths |-> "absent"]
    /\ wc = [p \in Paths |-> EmptyWc]
    /\ store = [k \in Keys |-> EmptyTree]
    /\ nextTmp = 1
    /\ FreshHandles
    /\ now = 0
    /\ cloneTries = [k \in Keys |-> 0]
    /\ cloneDone = [k \in Keys |-> 0]
    /\ published = {}
    /\ pubCount = 0

TargetSeqs == UNION {[1..n -> TargetPool] : n \in 1..MaxTargets}

\* The commit an earlier run left a tag at; the branch head is a later one.
OldCommit(tag) == IF tag.hard = 0 THEN 1 ELSE IF tag.minor = MinorVer THEN 2 ELSE 3
FirstHead == 4

AllowLists == {{}, TargetPool \ {Target(1, 16)}, TargetPool}

RequestTags(targets) ==
    {TagOf(targets[i]) : i \in 1..Len(targets)}
        \cup {ReleaseTag(TagOf(targets[i])) : i \in 1..Len(targets)}

Init ==
    /\ InitPool
    /\ req \in [upgrade : BOOLEAN, branch : Branches, targets : TargetSeqs]
    /\ env \in [allow : IF req.upgrade THEN {TargetPool} ELSE AllowLists,
                store : BOOLEAN]
    /\ \E present \in SUBSET RequestTags(req.targets) :
          tags = [g \in TagNames |->
                     IF g \in present THEN OldCommit([g EXCEPT !.rel = FALSE]) ELSE 0]
    /\ head = FirstHead
    /\ changelog \in IF req.upgrade
                     THEN {<<>>, <<TitleLine>>, <<OtherLine>>,
                           <<OtherLine, TitleLine, Heading(NoTag), TitleLine>>}
                     ELSE {<<>>}
    /\ buildDir \in IF req.upgrade THEN {NoFiles, AllFiles} ELSE {NoFiles}
    /\ wpc = "start"
    /\ wi = 0
    /\ failKind = "none"
    /\ relCommit = 0
    /\ trace = <<>>
    /\ run = 1
    /\ prevOutcome = "none"
    /\ codec = CodecOff
    /\ fmt = FmtOff
    /\ prs = PrsOff
    /\ msg = MsgOff

Next ==
    \/ ValidateBranch
    \/ PromoteTarget
    \/ StandardTarget
    \/ CommitBinaries
    \/ TagTarget
    \/ UpdateChangelog
    \/ WfAcquire
    \/ WfPushTarget
    \/ WfPushStep
    \/ WfAfterPush
    \/ WfClose
    \/ WfFinalize
    \/ StartRun

Spec == Init /\ [][Next]_vars

(***************************************************************************)
(* The pool under concurrent callers, without the workflow.                *)
(***************************************************************************)
PubTargets == {Target(1, 1)}

\* The caller's build directory: the binary and the map file exist, the
\* container does not.
PoolBuildDir ==
    [n \in AllNames |->
        IF n \in {BinName(Target(1, 1)), MapName(Target(1, 1))}
        THEN BinContent(1) ELSE BinContent(0)]

InitCallers ==
    /\ InitPool
    /\ buildDir = PoolBuildDir
    /\ req = [upgrade |-> FALSE, branch |-> <<"release">>, targets |-> <<Target(1, 1)>>]
    /\ env = [allow |-> TargetPool, store |-> TRUE]
    /\ tags = [g \in TagNames |-> 0]
    /\ head = FirstHead
    /\ changelog = <<>>
    /\ wpc = "off"
    /\ wi = 0
    /\ failKind = "none"
    /\ relCommit = 0
    /\ trace = <<>>
    /\ run = 1
    /\ prevOutcome = "none"
    /\ codec = CodecOff
    /\ fmt = FmtOff
    /\ prs = PrsOff
    /\ msg = MsgOff

CallerConstruct(h, k) == Construct(h, k) /\ UNCHANGED <<remoteVars, wfVars, codecVars>>

CallerPush(h, t) ==
    /\ pubCount < MaxPublishes
    /\ pubCount' = pubCount + 1
    /\ PushBegin(h, TagOf(t), TargetFiles(t))
    /\ UNCHANGED <<remoteVars, wfVars, codecVars>>

CallerStep(h) == PushStep(h) /\ UNCHANGED <<remoteVars, wfVars, codecVars>>

CallerClose(h) == Close(h) /\ UNCHANGED <<remoteVars, wfVars, codecVars>>

CallerDel(h) == Del(h) /\ UNCHANGED <<remoteVars, wfVars, codecVars>>

NextPool ==
    \/ \E h \in Callers, k \in Keys : CallerConstruct(h, k)
    \/ \E h \in Callers, t \in PubTargets : CallerPush(h, t)
    \/ \E h \in Callers : CallerStep(h)
    \/ \E h \in Callers : CallerClose(h)
    \/ \E h \in Callers : CallerDel(h)

SpecPool == InitCallers /\ [][NextPool]_vars

(***************************************************************************)
(* The version codec on its own: _calc_minor called on two argument pairs. *)
(***************************************************************************)
InitCodec ==
    /\ InitPool
    /\ buildDir = NoFiles
    /\ req = [upgrade |-> FALSE, branch |-> <<"release">>, targets |-> <<Target(1, 1)>>]
    /\ env = [allow |-> TargetPool, store |-> FALSE]
    /\ tags = [g \in TagNames |-> 0]
    /\ head = FirstHead
    /\ changelog = <<>>
    /\ wpc = "off"
    /\ wi = 0
    /\ failKind = "none"
    /\ relCommit = 0
    /\ trace = <<>>
    /\ run = 1
    /\ prevOutcome = "none"
    /\ \E a \in CodecArgs, b \in CodecArgs :
          codec = [CodecOff EXCEPT !.pc = "args", !.a = a, !.b = b]
    /\ fmt = FmtOff
    /\ prs = PrsOff
    /\ msg = MsgOff

CalcMinor ==
    /\ codec.pc = "args"
    /\ codec' = [codec EXCEPT
                    !.pc = "done",
                    !.ra = calc_minor_call(codec.a.variant_num, codec.a.minor_ver),
                    !.rb = calc_minor_call(codec.b.variant_num, codec.b.minor_ver)]
    /\ UNCHANGED <<poolVars, handleVars, envVars, ghostVars, remoteVars, wfVars,
                   fmt, prs, msg>>

NextCodec == CalcMinor

SpecCodec == InitCodec /\ [][NextCodec]_vars

(***************************************************************************)
(* The formatter on its own: the two names made from version fields and    *)
(* validated, and validate_tag_string called on given strings.             *)
(***************************************************************************)
\* The workflow is not running and no handle is in use.
Idle ==
    /\ InitPool
    /\ buildDir = NoFiles
    /\ req = [upgrade |-> FALSE, branch |-> <<"release">>, targets |-> <<Target(1, 1)>>]
    /\ env = [allow |-> TargetPool, store |-> FALSE]
    /\ tags = [g \in TagNames |-> 0]
    /\ head = FirstHead
    /\ changelog = <<>>
    /\ wpc = "off"
    /\ wi = 0
    /\ failKind = "none"
    /\ relCommit = 0
    /\ trace = <<>>
    /\ run = 1
    /\ prevOutcome = "none"

\* Version fields: the ends of 1..255, values of one, two and three digits,
\* and the neighbours 0 and 256 of the range.
JsonArgs ==
    [hard_num : {0, 1, 10, 255, 256}, variant_num : VariantArgs,
     is_service_firmware : BOOLEAN]
DefsArgs ==
    [proj_id : {1, 255}, major_ver : {2, 100}, minor_ver : MinorArgs,
     revision_ver : {4, 255, 256}]

ValidFields(json_data, defs_data) ==
    /\ defs_data.proj_id \in 1..255
    /\ defs_data.major_ver \in 1..255
    /\ json_data.hard_num \in 1..255
    /\ defs_data.revision_ver \in 1..255
    /\ 1 <= json_data.variant_num /\ json_data.variant_num <= _MAX_VARIANT
    /\ 1 <= defs_data.minor_ver /\ defs_data.minor_ver <= _MAX_MINOR

\* Strings given to validate_tag_string: a tag and its defects, one choice
\* for each part of the string.
Numerals ==
    {<<"1">>, <<"0">>, <<"2", "5", "5">>, <<"2", "5", "6">>, <<"0", "1">>,
     <<"1", "9">>, <<"1", "0", "0", "0">>, <<"a">>, <<>>, <<"1", ArabicThree>>}
TextParts ==
    [prefix : {<<"v">>, <<>>, <<"V">>},
     first : Numerals,
     count : {3, 4, 5},
     mark : {RevMark, <<>>, <<"-", "r", "e", "v">>},
     rev : Numerals,
     suffix : {<<>>, ReleaseSuffix, <<"-", "b", "e", "t", "a">>, <<"\n">>,
               ReleaseSuffix \o <<"\n">>, ReleaseSuffix \o ReleaseSuffix, <<" ">>}]

\* The components after the first one are those of the tag v<first>.2.19.1
OtherComponents(count) ==
    CASE count = 3 -> <<".", "2", ".", "1", "9">>
      [] count = 4 -> <<".", "2", ".", "1", "9", ".", "1">>
      [] OTHER -> <<".", "2", ".", "1", "9", ".", "1", ".", "7">>

TextOf(p) ==
    p.prefix \o p.first \o OtherComponents(p.count) \o p.mark \o p.rev \o p.suffix

InitFormat ==
    /\ Idle
    /\ codec = CodecOff
    /\ prs = PrsOff
    /\ msg = MsgOff
    /\ \/ \E j \in JsonArgs, d \in DefsArgs :
             fmt = [FmtOff EXCEPT !.pc = "fields", !.json_data = j, !.defs_data = d]
       \/ \E p \in TextParts :
             fmt = [FmtOff EXCEPT !.pc = "text", !.parts = p, !.s = TextOf(p)]

\* make_tag_name_from_dict and make_container_name_from_dict on the fields
FormatNames ==
    /\ fmt.pc = "fields"
    /\ fmt' = [fmt EXCEPT
                  !.pc = "named",
                  !.tag = make_tag_name_from_dict(fmt.json_data, fmt.defs_data),
                  !.container =
                      make_container_name_from_dict(fmt.json_data, fmt.defs_data)]
    /\ UNCHANGED <<poolVars, handleVars, envVars, ghostVars, remoteVars, wfVars,
                   codec, prs, msg>>

\* validate_tag_string on the tag made, and on that tag with "-release"
ValidateNamed ==
    /\ fmt.pc = "named"
    /\ fmt.tag.ok
    /\ fmt' = [fmt EXCEPT
                  !.pc = "validated",
                  !.valid = validate_tag_str(fmt.tag.value),
                  !.validRel = validate_tag_str(fmt.tag.value \o ReleaseSuffix)]
    /\ UNCHANGED <<poolVars, handleVars, envVars, ghostVars, remoteVars, wfVars,
                   codec, prs, msg>>

\* validate_tag_string and _TAG_VRANGE_RE.match on a given string
ValidateText ==
    /\ fmt.pc = "text"
    /\ fmt' = [fmt EXCEPT
                  !.pc = "checked",
                  !.accepted = validate_tag_str(fmt.s),
                  !.vrange = _TAG_VRANGE_RE(fmt.s)]
    /\ UNCHANGED <<poolVars, handleVars, envVars, ghostVars, remoteVars, wfVars,
                   codec, prs, msg>>

NextFormat ==
    \/ FormatNames
    \/ ValidateNamed
    \/ ValidateText

SpecFormat == InitFormat /\ [][NextFormat]_vars

(***************************************************************************)
(* The parser on its own: ReleaseParser.parse called on a request and a    *)
(* definitions file.                                                       *)
(***************************************************************************)
\* The targets of a request: with both keys and a hardware number and a
\* variant in, at the ends of and next to their ranges, or with one key only.
TargetDicts ==
    [keys : {{"hard_num", "variant_num"}}, hard_num : {0, 1, 255},
     variant_num : {0, 1, 16, 17}]
        \cup [keys : {{"hard_num"}, {"variant_num"}}, hard_num : {1}, variant_num : {1}]

Requests ==
    [missing : {"none", "cmake_project_name", "git_project_id", "branch_name",
                "targets"},
     is_service_firmware : BOOLEAN,
     targets : UNION {[1..n -> TargetDicts] : n \in 0..MaxTargets}]

DefsTexts ==
    [absent : {"none", "PRODUCT_REVISION"},
     values : [proj_id : {1}, major_ver : {2}, minor_ver : {0, 1, 15, 16},
               revision_ver : {4, 256}]]

InitParser ==
    /\ Idle
    /\ codec = CodecOff
    /\ fmt = FmtOff
    /\ \E j \in Requests, d \in DefsTexts :
          prs = [PrsOff EXCEPT !.pc = "files", !.json_data = j, !.defs_text = d]
    /\ msg = MsgOff

Parse ==
    /\ prs.pc = "files"
    /\ prs' = [prs EXCEPT !.pc = "done",
                          !.result = parse(prs.json_data, prs.defs_text)]
    /\ UNCHANGED <<poolVars, handleVars, envVars, ghostVars, remoteVars, wfVars,
                   codec, fmt, msg>>

NextParser == Parse

SpecParser == InitParser /\ [][NextParser]_vars

(***************************************************************************)
(* The commit message of a publish (firmware_store_pusher.py 99-106,       *)
(* 154-168).  An item of info.features or info.bug_fixes is a sequence of  *)
(* tokens: 0 is text JIRA_TASK_PATTERN does not match, n > 0 is the        *)
(* bracketed reference "[T-n]"; sorted() orders "T-1" < "T-2" < "T-3".     *)
(***************************************************************************)
MaxRef == 3

\* JIRA_TASK_PATTERN.search(item): the first match in the item, or none.
search(item) ==
    LET hits == {i \in 1..Len(item) : item[i] > 0}
    IN  IF hits = {} THEN 0
        ELSE item[CHOOSE i \in hits : \A j \in hits : i <= j]

_extract_jira_tasks(items) ==
    {search(items[i]) : i \in 1..Len(items)} \ {0}

RECURSIVE sorted(_)
sorted(ids) ==
    IF ids = {} THEN <<>>
    ELSE LET least == CHOOSE n \in ids : \A m \in ids : n <= m
         IN  <<least>> \o sorted(ids \ {least})

\* The lines joined into msg: the summary, and when there are references a
\* blank line and one "Refs:" line each.
CommitMessage(features, bug_fixes) ==
    LET jira_ids == _extract_jira_tasks(features) \cup _extract_jira_tasks(bug_fixes)
        refs == sorted(jira_ids)
    IN  <<[kind |-> "summary", id |-> 0]>>
            \o (IF jira_ids = {} THEN <<>>
                ELSE <<[kind |-> "blank", id |-> 0]>>
                        \o [i \in 1..Len(refs) |-> [kind |-> "refs", id |-> refs[i]]])

Items == UNION {[1..n -> 0..MaxRef] : n \in 1..2}
ItemLists == {<<>>} \cup {<<a>> : a \in Items}

InitMessage ==
    /\ Idle
    /\ codec = CodecOff
    /\ fmt = FmtOff
    /\ prs = PrsOff
    /\ \E f \in ItemLists, b \in ItemLists :
          msg = [MsgOff EXCEPT !.pc = "texts", !.features = f, !.bug_fixes = b]

BuildMessage ==
    /\ msg.pc = "texts"
    /\ msg' = [msg EXCEPT !.pc = "done",
                          !.lines = CommitMessage(msg.features, msg.bug_fixes)]
    /\ UNCHANGED <<poolVars, handleVars, envVars, ghostVars, remoteVars, wfVars,
                   codec, fmt, prs>>

NextMessage == BuildMessage

SpecMessage == InitMessage /\ [][NextMessage]_vars

(***************************************************************************)
(* Properties.                                                             *)
(***************************************************************************)

\* C1: in a promotion run, every release tag the run has created exists and
\* points at the commit of its beta tag, and the run has made no commit: the
\* head of the branch is where it was.
C1_PromotionSameCommit ==
    req.upgrade =>
        /\ \A p \in Events({"tag"}) :
              LET release_tag == trace[p].tag
                  beta_tag == [release_tag EXCEPT !.rel = FALSE]
              IN /\ release_tag.rel
                 /\ get_tag(release_tag)
                 /\ get_tag(beta_tag)
                 /\ tags[release_tag] = tags[beta_tag]
        /\ Events({"commit"}) = {}
        /\ head = FirstHead

C1_Witness ==
    /\ req.upgrade
    /\ NumTargets = 2
    /\ Cardinality(Events({"tag"})) = 2
    /\ wpc # "loop"

\* C2: a run that aborted on a validation failure (branch, allow-list, tag
\* format, existing tag, missing beta tag) has changed nothing on a remote.
C2_NoMutationBeforeAbort ==
    (wpc = "failed" /\ failKind \in {"branch", "target", "format", "conflict", "prereq"})
        => Events(RemoteOps) = {}

\* C3: in a standard run every build was started for a target that is in the
\* allow-list and whose tag did not exist on the remote at that moment, and
\* a run that stopped on an existing tag has not started that target's build.
C3_BuildAfterValidation ==
    ~req.upgrade =>
        /\ \A p \in Events({"build"}) : trace[p].ok
        /\ (wpc = "failed" /\ failKind = "conflict") =>
              /\ get_tag(TagOf(req.targets[wi]))
              /\ \A p \in Events({"build"}) : trace[p].i < wi

C3_Witness ==
    /\ ~req.upgrade
    /\ wpc = "failed"
    /\ failKind = "conflict"
    /\ wi = 2
    /\ Events({"build"}) # {}

\* C4: the run that follows a run of the same request that ended with exit
\* status 0 builds nothing and changes nothing on a remote, and it ends on
\* the conflict error.
C4_RerunConflicts ==
    (run > 1 /\ prevOutcome = "done") =>
        /\ Events(RemoteOps \cup {"build", "publish"}) = {}
        /\ wpc \in {"start", "loop", "failed"}
        /\ wpc = "failed" => failKind = "conflict"
        /\ \A h \in Handles : hpc[h] = "unborn"

C4_Witness ==
    /\ run > 1
    /\ prevOutcome = "done"
    /\ wpc = "failed"
    /\ failKind = "conflict"

\* Every handle has had close() called on it at most once, the finalizer's call
\* included.
OneClosePerHandle == \A h \in Handles : closes[h] <= 1

OpenHandles(k) == {h \in Handles : hpc[h] # "unborn" /\ hkey[h] = k /\ closes[h] = 0}

\* C5, as claimed: with one close() per handle, at most one clone operation
\* is run for a key while its entry exists, the count of the entry is the
\* number of handles constructed and not closed, a caller past _ensure_clone
\* holds the path of the completed clone, and the entry and the working copy
\* are gone once every handle is closed.
C5_OneCloneOperation ==
    OneClosePerHandle =>
        \A k \in Keys :
            /\ repos[k].present => cloneTries[k] <= 1
            /\ repos[k].present <=> OpenHandles(k) # {}
            /\ repos[k].refs = Cardinality(OpenHandles(k))

\* C5, amended: at most one clone operation succeeds for a key while its
\* entry exists; the rest as claimed.
C5_OneCloneSucceeds ==
    OneClosePerHandle =>
        /\ \A k \in Keys :
              /\ repos[k].present => cloneDone[k] <= 1
              /\ repos[k].present <=> OpenHandles(k) # {}
              /\ repos[k].refs = Cardinality(OpenHandles(k))
              /\ (repos[k].present /\ repos[k].tmp # NoPath) =>
                     /\ cloneDone[k] = 1
                     /\ disk[repos[k].tmp] = "repo"
        /\ \A h \in Handles :
              hpc[h] \in MutatingPcs =>
                  /\ call[h].tmp # NoPath
                  /\ call[h].tmp = repos[hkey[h]].tmp
                  /\ disk[call[h].tmp] = "repo"
        /\ \A p \in Paths :
              disk[p] # "absent" => \E k \in Keys : repos[k].present /\ repos[k].tmp = p

C5_Witness ==
    /\ \A h \in Callers : hkey[h] = StoreKey /\ closes[h] = 1
    /\ ~repos[StoreKey].present
    /\ nextTmp = 2
    /\ disk[1] = "absent"
    /\ store[StoreKey] # EmptyTree

\* C6: a close() on a handle that was closed before changes neither the
\* pool nor the disk.
C6_SecondCloseNoOp ==
    [][\A h \in Handles :
          (closes[h] >= 1 /\ closes'[h] = closes[h] + 1)
              => (repos' = repos /\ disk' = disk)]_vars

\* The state part of the invariant of the clone pool.
C7_StateInvariant ==
    /\ \A k \in Keys :
          /\ repos[k].present => repos[k].refs > 0
          /\ ~repos[k].present => repos[k] = NoEntry
          /\ (repos[k].present /\ repos[k].tmp # NoPath) => disk[repos[k].tmp] = "repo"
    /\ \A p \in Paths :
          disk[p] = "repo" => \E k \in Keys : repos[k].present /\ repos[k].tmp = p
    /\ \A k1, k2 \in Keys :
          (k1 # k2 /\ repos[k1].tmp # NoPath) => repos[k1].tmp # repos[k2].tmp

C8_PublishSerialized ==
    \A k \in Keys :
        Cardinality({h \in Handles : hkey[h] = k /\ hpc[h] \in MutatingPcs}) <= 1

\* C9: a publish of a folder and files that were published before for the
\* key does not get as far as a new commit.
C9_RepublishNoCommit ==
    \A h \in Handles : ~(hpc[h] = "push" /\ call[h].prior)

\* The lines of a manifest that ends with the digest of the lines before it.
SelfDigestOk(ls) ==
    /\ Len(ls) >= 1
    /\ ls[Len(ls)] = <<Sha256(ManifestContent(SubSeq(ls, 1, Len(ls) - 1))), ChecksumsName>>
    /\ \A i \in 1..(Len(ls) - 1) : ls[i][2] # ChecksumsName

\* C10: every published checksums.txt ends with the digest of the lines
\* before it, and no line before it names checksums.txt.
C10_ManifestSelfDigest ==
    \A k \in Keys : \A f \in FolderNames :
        ChecksumsName \in DOMAIN store[k][f] =>
            SelfDigestOk(store[k][f][ChecksumsName].lines)

\* C11: the checksums.txt a publish writes for a folder and files that were
\* published before is the checksums.txt of the commit that is checked out.
C11_ManifestStable ==
    \A h \in Handles :
        LET p == call[h].tmp
            rel == call[h].rel
        IN (/\ hpc[h] \in {"info", "add", "diff", "commit", "push"}
            /\ call[h].prior
            /\ disk[p] = "repo"
            /\ ChecksumsName \in DOMAIN wc[p].head[rel])
           => wc[p].work[rel][ChecksumsName] = wc[p].head[rel][ChecksumsName]

\* The publish calls made so far: one pass per target, in request order,
\* a publish when the target has files and the store is configured, a skip
\* otherwise.
PublishPasses(n) ==
    \A i \in 1..n :
        /\ Cardinality({p \in Events({"publish", "skip"}) : trace[p].i = i}) = 1
        /\ \A p \in Events({"publish"}) :
              trace[p].i = i => (collect_target_files(req.targets[i]) # {} /\ env.store)
        /\ \A p \in Events({"skip"}) :
              trace[p].i = i => ~(collect_target_files(req.targets[i]) # {} /\ env.store)
        /\ \A p, q \in Events({"publish", "skip"}) :
              (trace[p].i = i /\ trace[q].i > i) => p < q

\* The passes made while the publish phase runs and when it is over.
PublishPhasePasses ==
    /\ wpc = "pushing" => PublishPasses(wi - 1)
    /\ wpc \in {"closing", "done"} => (PublishPasses(NumTargets) /\ failKind = "none")

\* C12: the publish phase never ends a run other than with exit status 0,
\* whatever publish call failed, and it makes the publish pass of every
\* target, also of the targets after one whose publish call failed.
C12_PublishBestEffort ==
    /\ []PublishPhasePasses
    /\ [][(wpc \in {"pushing", "closing"}) =>
             (wpc' \in {"pushing", "closing", "done"} /\ failKind' = failKind)]_vars

C12_Witness ==
    /\ wpc = "done"
    /\ NumTargets = 2
    /\ \E p \in Events({"publish_failed"}), q \in Events({"publish"}) :
          trace[p].i = 1 /\ trace[q].i = 2 /\ p < q

\* C13: a run does not stop on the conflict or the prerequisite error of one
\* target while targets that follow it in the request are unprocessed.
C13_SiblingsProcessed ==
    ~(wpc = "failed" /\ failKind \in {"conflict", "prereq"} /\ wi < NumTargets)

\* The tag of a promotion pass is well formed: validate_tag gets past its
\* format checks.
WellFormed(tag) == TagVRange(tag) /\ validate_tag_string(tag)

C15_PromotionReachesPublish ==
    (req.upgrade /\ wpc = "failed" /\ Events({"changelog"}) # {})
        => failKind = "external"

\* C16: a standard run makes at most one commit, after all of its builds and
\* before any tag; every tag it creates is at release_commit_hash, which is
\* the head of the branch after the commit step.
C16_OneCommitThenTags ==
    ~req.upgrade =>
        /\ Cardinality(Events({"commit"})) <= 1
        /\ \A c \in Events({"commit"}) :
              /\ \A b \in Events({"build"}) : b < c
              /\ \A t \in Events({"tag"}) : c < t
              /\ trace[c].ref = relCommit
        /\ \A t \in Events({"tag"}) :
              /\ \A b \in Events({"build"}) : b < t
              /\ tags[trace[t].tag] = relCommit
              /\ relCommit = head
        /\ wpc \in {"publish", "pushing", "closing", "done"} =>
              /\ relCommit = head
              /\ Cardinality(Events({"build"})) = NumTargets
              /\ \A i \in 1..NumTargets : tags[TagOf(req.targets[i])] = relCommit

C16_Witness ==
    /\ ~req.upgrade
    /\ NumTargets = 2
    /\ wpc = "done"
    /\ Events({"commit"}) # {}
    /\ Cardinality(Events({"tag"})) = 2

\* C17: a promotion run starts no build and makes no commit: the build
\* directory and the head of the branch stay as they were.
C17_PromotionNeverBuilds ==
    req.upgrade =>
        /\ Events({"build", "commit"}) = {}
        /\ buildDir \in {NoFiles, AllFiles}
        /\ head = FirstHead
        /\ relCommit = 0
        /\ wpc \notin {"commit", "tagging"}

C17_Witness ==
    /\ req.upgrade
    /\ NumTargets = 2
    /\ wpc = "changelog"

\* C18: two valid argument pairs that _calc_minor packs to the same value
\* are the same pair.
C18_PackInjective ==
    (codec.pc = "done" /\ ValidArgs(codec.a) /\ ValidArgs(codec.b)
        /\ codec.ra.value = codec.rb.value) => codec.a = codec.b

\* C19: _calc_minor packs every valid argument pair to a value in 0..239,
\* (16, 15) to 239 and (16, 1) to 225.
C19_PackRange ==
    (codec.pc = "done" /\ ValidArgs(codec.a)) =>
        /\ codec.ra.ok
        /\ 0 <= codec.ra.value /\ codec.ra.value <= 239
        /\ (codec.a.variant_num = 16 /\ codec.a.minor_ver = 15) => codec.ra.value = 239
        /\ (codec.a.variant_num = 16 /\ codec.a.minor_ver = 1) => codec.ra.value = 225

C19_Witness ==
    /\ codec.pc = "done"
    /\ codec.a = [variant_num |-> 16, minor_ver |-> 15]
    /\ codec.ra = [ok |-> TRUE, value |-> 239]

\* C20: _calc_minor returns ((variant_num - 1) << 4) | minor_ver for every
\* valid argument pair.
C20_PackFormula ==
    (codec.pc = "done" /\ ValidArgs(codec.a)) =>
        /\ codec.ra.ok
        /\ codec.ra.value = (codec.a.variant_num - 1) * Pow2(4) + codec.a.minor_ver

\* C21: the tag make_tag_name_from_dict makes from valid version fields,
\* service firmware or not, is accepted by validate_tag_string, and so is
\* that tag with "-release" appended.
C21_RoundTrip ==
    (fmt.pc \in {"named", "validated"}
        /\ ValidFields(fmt.json_data, fmt.defs_data)) =>
        /\ fmt.tag.ok
        /\ fmt.pc = "validated" => (fmt.valid /\ fmt.validRel)

C21_Witness ==
    /\ fmt.pc = "validated"
    /\ ValidFields(fmt.json_data, fmt.defs_data)
    /\ fmt.json_data.is_service_firmware
    /\ fmt.json_data.hard_num = 255
    /\ fmt.json_data.variant_num = 16
    /\ fmt.defs_data.minor_ver = 15
    /\ fmt.valid /\ fmt.validRel

\* A numeral that is ASCII digits only, and such a numeral outside 1..255.
Numeric(ds) == ds # <<>> /\ \A i \in 1..Len(ds) : IsAsciiDigit(ds[i])
OutOfRange(ds) == Numeric(ds) /\ IntOf(ds) \notin 1..255

\* The defects of a string built from parts: no "v" prefix, no "-Rev" or no
\* number after it, other than four components, a component that is 0 or
\* above 255, a component that is not a number, a suffix other than "-release".
Defective(p) ==
    \/ p.prefix # <<"v">>
    \/ p.mark # RevMark
    \/ p.rev = <<>>
    \/ p.count # 4
    \/ OutOfRange(p.first) \/ OutOfRange(p.rev)
    \/ p.first \in {<<"a">>, <<>>} \/ p.rev = <<"a">>
    \/ p.suffix \notin {<<>>, ReleaseSuffix}

\* C22: validate_tag_string rejects every string with one of the defects:
\* missing "v", missing "-Rev" or its number, a component count other than
\* four, a component that is 0, above 255 or not a number, or a suffix other
\* than the optional "-release".
C22_RejectsDefective ==
    (fmt.pc = "checked" /\ Defective(fmt.parts)) => ~fmt.accepted

\* A string that is, up to the optional "-release", what make_tag renders
\* for some fields in 1..255: canonical numerals, nothing before or after.
Canonical(s) ==
    LET m == TagShape(s)
    IN /\ m.matched
       /\ \A g \in 1..5 : IntOf(Groups(m)[g]) \in 1..255
       /\ s = <<"v">> \o Dec(IntOf(m.proj)) \o <<".">> \o Dec(IntOf(m.major)) \o <<".">>
                \o Dec(IntOf(m.minor)) \o <<".">> \o Dec(IntOf(m.hard)) \o RevMark
                \o Dec(IntOf(m.revision))
                \o (IF m.suffix THEN ReleaseSuffix ELSE <<>>)

\* C23: every string validate_tag_string accepts is canonical, and
\* validate_tag_string accepts exactly the strings _TAG_VRANGE_RE matches.
C23_AcceptsExactlyCanonical ==
    fmt.pc = "checked" =>
        /\ fmt.accepted => Canonical(fmt.s)
        /\ fmt.accepted <=> fmt.vrange

\* The container name read back: the project id as rendered, then three
\* groups of three ASCII digits each, then ".btl.bin".
ThreeDigits(v, i) ==
    \A j \in i..(i + 2) : IsAsciiDigit(v[j])

ContainerGroups(v, n, json_data, defs_data, tag) ==
    /\ Len(v) = n + 20
    /\ IntOf(SubSeq(v, 1, n)) = defs_data.proj_id
    /\ \A j \in 1..n : IsAsciiDigit(v[j])
    /\ At(v, n + 1, <<".">>) /\ At(v, n + 5, <<".">>) /\ At(v, n + 9, <<".">>)
    /\ ThreeDigits(v, n + 2) /\ ThreeDigits(v, n + 6) /\ ThreeDigits(v, n + 10)
    /\ IntOf(SubSeq(v, n + 2, n + 4)) = defs_data.major_ver
    /\ IntOf(SubSeq(v, n + 6, n + 8)) = IntOf(TagShape(tag).minor)
    /\ IntOf(SubSeq(v, n + 10, n + 12)) = json_data.hard_num
    /\ At(v, n + 13, BtlBin)

\* C24 (as stated): for valid fields every numeric group of the container
\* name, the project id included, is exactly three zero-padded digits.
C24_AllGroupsThreeDigits ==
    (fmt.pc \in {"named", "validated"}
        /\ ValidFields(fmt.json_data, fmt.defs_data)) =>
        /\ fmt.container.ok
        /\ ContainerGroups(fmt.container.value, 3, fmt.json_data, fmt.defs_data,
                           fmt.tag.value)

\* C24: for valid fields the container name is the project id as a plain
\* decimal numeral, then the major version, the packed minor of the tag and
\* the hardware number as exactly three zero-padded digits each, then
\* ".btl.bin".
C24_ThreeDigitGroups ==
    (fmt.pc \in {"named", "validated"}
        /\ ValidFields(fmt.json_data, fmt.defs_data)) =>
        /\ fmt.container.ok
        /\ ContainerGroups(fmt.container.value, Len(Dec(fmt.defs_data.proj_id)),
                           fmt.json_data, fmt.defs_data, fmt.tag.value)
        /\ SubSeq(fmt.container.value, 1, Len(Dec(fmt.defs_data.proj_id)))
               = Dec(fmt.defs_data.proj_id)

C24_Witness ==
    /\ fmt.pc = "named"
    /\ fmt.json_data = [hard_num |-> 1, variant_num |-> 2, is_service_firmware |-> FALSE]
    /\ fmt.defs_data.proj_id = 1 /\ fmt.defs_data.major_ver = 2
    /\ fmt.defs_data.minor_ver = 3
    /\ fmt.container.value =
           <<"1", ".", "0", "0", "2", ".", "0", "1", "9", ".", "0", "0", "1">> \o BtlBin

\* C25: whenever pack is defined for the arguments, make_tag returns
\* v<project_id>.<major>.<((variant_num - 1) << 4) | minor_ver>.<hardware_num>
\* -Rev<revision>, without "-release", where the revision is 255 for service
\* firmware and the compiled revision otherwise.
C25_MakeTagShape ==
    (fmt.pc \in {"named", "validated"}
        /\ ValidArgs([variant_num |-> fmt.json_data.variant_num,
                      minor_ver |-> fmt.defs_data.minor_ver])) =>
        LET m == TagShape(fmt.tag.value)
        IN /\ fmt.tag.ok
           /\ m.matched /\ ~m.suffix
           /\ m.proj = Dec(fmt.defs_data.proj_id)
           /\ m.major = Dec(fmt.defs_data.major_ver)
           /\ m.minor = Dec((fmt.json_data.variant_num - 1) * Pow2(4)
                                + fmt.defs_data.minor_ver)
           /\ m.hard = Dec(fmt.json_data.hard_num)
           /\ m.revision = Dec(IF fmt.json_data.is_service_firmware THEN 255
                               ELSE fmt.defs_data.revision_ver)
           /\ fmt.tag.value[Len(fmt.tag.value)] # "\n"

\* The failures the claim lists: a required field absent, no targets, a
\* target without hard_num or variant_num, a minor version outside 1..15.
ListedFailure(json_data, defs_text) ==
    \/ json_data.missing # "none"
    \/ json_data.targets = <<>>
    \/ \E i \in 1..Len(json_data.targets) :
          json_data.targets[i].keys # {"hard_num", "variant_num"}
    \/ defs_text.values.minor_ver \notin 1..15

\* The failures the claim does not list: a define that is not in defs.h, a
\* variant outside 1..16.
OtherFailure(json_data, defs_text) ==
    \/ defs_text.absent # "none"
    \/ \E i \in 1..Len(json_data.targets) :
          json_data.targets[i].variant_num \notin 1..16

\* One target record for each requested target, in the order of the request.
RecordsInOrder(json_data, result) ==
    /\ Len(result.targets) = Len(json_data.targets)
    /\ \A i \in 1..Len(json_data.targets) :
          /\ result.targets[i].hard_num = json_data.targets[i].hard_num
          /\ result.targets[i].variant_num = json_data.targets[i].variant_num

\* C26 (as stated): parse fails exactly when a required field is absent, the
\* targets are empty, a target lacks hard_num or variant_num or the minor
\* version is outside 1..15, and otherwise returns one record per target in
\* request order.
C26_ParseFailsAsListed ==
    prs.pc = "done" =>
        IF ListedFailure(prs.json_data, prs.defs_text) THEN ~prs.result.ok
        ELSE prs.result.ok /\ RecordsInOrder(prs.json_data, prs.result)

\* C26: parse fails when a required field is absent, the targets are empty,
\* a target lacks hard_num or variant_num, the minor version is outside
\* 1..15, a define is missing from defs.h or a target's variant is outside
\* 1..16; otherwise it returns one record per target in request order.
C26_ParseFailures ==
    prs.pc = "done" =>
        IF \/ ListedFailure(prs.json_data, prs.defs_text)
           \/ OtherFailure(prs.json_data, prs.defs_text)
        THEN ~prs.result.ok
        ELSE prs.result.ok /\ RecordsInOrder(prs.json_data, prs.result)

C26_Witness ==
    /\ prs.pc = "done"
    /\ prs.result.ok
    /\ Len(prs.json_data.targets) = 2
    /\ prs.json_data.targets[1].variant_num # prs.json_data.targets[2].variant_num
    /\ RecordsInOrder(prs.json_data, prs.result)

\* C27: every target record of a descriptor parse returns carries a tag that
\* validate_tag_string accepts (five numeric components, all in 1..255).
C27_ParsedTagsValid ==
    (prs.pc = "done" /\ prs.result.ok) =>
        \A i \in 1..Len(prs.result.targets) :
            validate_tag_str(prs.result.targets[i].tag_name)

\* The events of the given operation, in the order they happened.
OpsInOrder(op) == SelectSeq(trace, LAMBDA e : e.op = op)

\* The builds of a run are those of targets 1, 2, ... in this order, its
\* tags are those of targets of increasing index, and when tags are being
\* created in a standard run every target has been built and no build failed.
C28_OrderInvariant ==
    /\ \A k \in 1..Len(OpsInOrder("build")) : OpsInOrder("build")[k].i = k
    /\ \A k \in 1..Len(OpsInOrder("tag")) :
          /\ k > 1 => OpsInOrder("tag")[k - 1].i < OpsInOrder("tag")[k].i
          /\ OpsInOrder("tag")[k].tag =
                 IF req.upgrade THEN ReleaseTag(TagOf(req.targets[OpsInOrder("tag")[k].i]))
                 ELSE TagOf(req.targets[OpsInOrder("tag")[k].i])
    /\ (wpc = "tagging" \/ OpsInOrder("tag") # <<>>) =>
          /\ failKind # "build"
          /\ ~req.upgrade => Len(OpsInOrder("build")) = NumTargets

\* C28: targets are processed in request order, and a tag is created, or its
\* creation attempted, for a target only after that target's own build
\* succeeded (standard run) or its own beta tag was found (promotion run).
C28_TagAfterOwnStep ==
    /\ []C28_OrderInvariant
    /\ [][(wpc \in {"loop", "tagging"} /\ (tags' # tags \/ failKind' = "external")) =>
            IF req.upgrade
            THEN /\ wpc = "loop"
                 /\ get_tag(TagOf(req.targets[wi]))
            ELSE /\ wpc = "tagging"
                 /\ \E p \in Events({"build"}) : trace[p].i = wi]_vars

C28_Witness ==
    /\ ~req.upgrade
    /\ NumTargets = 2
    /\ Len(OpsInOrder("build")) = 2
    /\ Len(OpsInOrder("tag")) = 2
    /\ OpsInOrder("tag")[2].i = 2

\* C29: constructing a handle adds exactly one to the refcount of its key,
\* creating the entry with refcount 1 and no working copy when there is
\* none, and clones nothing; a clone is made only inside a publish call.
C29_AcquireCountsOnly ==
    /\ [][\A h \in Callers :
            (hpc[h] = "unborn" /\ hpc'[h] = "idle") =>
                /\ repos'[hkey'[h]] =
                       IF repos[hkey'[h]].present
                       THEN [repos[hkey'[h]] EXCEPT !.refs = @ + 1]
                       ELSE [present |-> TRUE, tmp |-> NoPath, refs |-> 1]
                /\ \A k \in Keys \ {hkey'[h]} : repos'[k] = repos[k]
                /\ UNCHANGED <<disk, wc, store, nextTmp>>]_vars
    /\ [][(nextTmp' # nextTmp \/ \E k \in Keys : cloneTries'[k] > cloneTries[k]) =>
            \E h \in Callers : hpc[h] = "clone"]_vars

C29_Witness ==
    /\ nextTmp = 1
    /\ \A k \in Keys : cloneTries[k] = 0
    /\ \E k \in Keys : repos[k] = [present |-> TRUE, tmp |-> NoPath, refs |-> 2]
    /\ \A h \in Callers : hpc[h] = "idle"

\* C30: a clone, commit or push that fails inside a publish call is raised
\* to that caller only and leaves the entry of the key as it was: the
\* refcount unchanged, no working copy recorded after a failed clone, the
\* recorded working copy kept after a failed commit or push.
C30_FailureLeavesEntry ==
    [][\A h \in Callers :
          (hpc[h] \in {"clone", "commit", "push"} /\ repos[hkey[h]].present
              /\ hres'[h] = "raised" /\ hpc'[h] = "idle") =>
              /\ repos'[hkey[h]].present
              /\ repos'[hkey[h]].refs = repos[hkey[h]].refs
              /\ hpc[h] = "clone" => repos'[hkey[h]].tmp = NoPath
              /\ hpc[h] \in {"commit", "push"} =>
                     repos'[hkey[h]].tmp = repos[hkey[h]].tmp
              /\ \A g \in Callers \ {h} :
                     hres'[g] = hres[g] /\ hpc'[g] = hpc[g] /\ call'[g] = call[g]]_vars

\* A clone failed for one caller, and the other caller's publish then made
\* the clone and failed at its push: the clone is still recorded.
C30_Witness ==
    \E k \in Keys, g \in Callers, h \in Callers :
        /\ g # h
        /\ hkey[g] = k /\ hkey[h] = k
        /\ repos[k].present /\ repos[k].refs = 2 /\ repos[k].tmp # NoPath
        /\ cloneTries[k] = 2 /\ cloneDone[k] = 1
        /\ hres[g] = "raised" /\ hres[h] = "raised"
        /\ hpc[g] = "idle" /\ hpc[h] = "idle"

AllReferences(items) ==
    {items[i][j] : <<i, j>> \in {p \in (1..Len(items)) \X (1..2) : p[2] <= Len(items[p[1]])}}
        \ {0}

\* C32: the commit message is the summary line followed by one "Refs:" line for
\* every distinct reference that occurs anywhere in the feature and bug-fix
\* texts, each once, in sorted order, including every reference of an item
\* that holds more than one.
C32_EveryReferenceListed ==
    msg.pc = "done" =>
        LET all == AllReferences(msg.features) \cup AllReferences(msg.bug_fixes)
            refs == SelectSeq(msg.lines, LAMBDA l : l.kind = "refs")
        IN  /\ msg.lines[1].kind = "summary"
            /\ {refs[i].id : i \in 1..Len(refs)} = all
            /\ Len(refs) = Cardinality(all)
            /\ \A i \in 1..(Len(refs) - 1) : refs[i].id < refs[i + 1].id



\* C33: the changelog update only inserts lines: across every step the lines
\* the changelog had are all still there, unmodified and in the same order,
\* with the new lines put in at one place.
C33_AppendOnly ==
    [][\E i \in 0..Len(changelog), n \in 0..(MaxTargets + 1) :
          /\ Len(changelog') = Len(changelog) + n
          /\ SubSeq(changelog', 1, i) = SubSeq(changelog, 1, i)
          /\ SubSeq(changelog', i + n + 1, Len(changelog'))
                = SubSeq(changelog, i + 1, Len(changelog))]_vars

\* An update has been made to a changelog that had lines before and after its
\* first title line: the entries stand right after that line.
C33_Witness ==
    /\ \E i \in 1..Len(trace) : trace[i].op = "changelog"
    /\ changelog = <<OtherLine, TitleLine>> \o NewEntries
                       \o <<Heading(NoTag), TitleLine>>

\* C34: a changelog update that writes the file leaves in it the version
\* headings of the release tags of all targets, in request order, whatever the
\* content was before.
C34_HeadingsWritten ==
    [][(Len(trace') > Len(trace) /\ trace'[Len(trace')].op = "changelog") =>
          \E i \in 0..(Len(changelog') - NumTargets) :
              SubSeq(changelog', i + 1, i + NumTargets) = NewEntries]_vars



\* The handle took a step: it was constructed, moved on in push_release,
\* or was closed or finalized.
Stepped(h) ==
    \/ hpc'[h] # hpc[h]
    \/ closes'[h] # closes[h]
    \/ dead'[h] # dead[h]

\* C35: operations on one key leave every other key alone: the entry of a
\* key (whether it exists, its count, its path) and its working copy on disk
\* change only in a step of a handle of that very key.
C35_KeysIndependent ==
    [][\A k \in Keys :
          (\A h \in Handles : Stepped(h) => hkey'[h] # k) =>
              /\ repos'[k] = repos[k]
              /\ HasClone(repos[k]) =>
                    /\ disk'[repos[k].tmp] = disk[repos[k].tmp]
                    /\ wc'[repos[k].tmp] = wc[repos[k].tmp]]_vars

\* Both keys have had a working copy; the handle of one key was closed and its
\* copy removed, the entry and the working copy of the other are in place.
C35_Witness ==
    \E a \in Keys : \E b \in Keys \ {a} :
        /\ cloneDone[a] > 0 /\ ~repos[a].present
        /\ repos[b].present /\ repos[b].refs = 1 /\ HasClone(repos[b])
        /\ disk[repos[b].tmp] = "repo"
        /\ wc[repos[b].tmp].head # EmptyTree



\* C36: while a handle constructed for a key has not been closed, the entry of
\* its key is present, and the working copy the entry names, or the one the
\* handle's publish is working in, is on disk.
C36_NoUseAfterRelease ==
    \A h \in Handles :
        (hpc[h] # "unborn" /\ closes[h] = 0) =>
            /\ repos[hkey[h]].present
            /\ HasClone(repos[hkey[h]]) => disk[repos[hkey[h]].tmp] = "repo"
            /\ call[h].tmp # NoPath => disk[call[h].tmp] = "repo"



\* C37: when a publish call returns, the checksums.txt of the release folder
\* has one line for every other file that is in the folder, sorted by name,
\* with the digest of the file's content as it is then.
C37_ManifestMatchesFolder ==
    [][\A h \in Handles :
          (/\ hpc[h] # "idle" /\ hpc'[h] = "idle"
           /\ hres'[h] \in {"ok", "noop"}
           /\ disk'[call[h].tmp] = "repo") =>
              LET folder == wc'[call[h].tmp].work[call[h].rel]
              IN  /\ ChecksumsName \in DOMAIN folder
                  /\ folder[ChecksumsName] = ManifestContent(ManifestLines(folder))]_vars



\* The name passes validate_tag now (a promotion validates the release tag in
\* the pass that creates it), or passed it before the build of its target that
\* the run has on record (a standard run builds only what it validated).
PassedValidation(g) ==
    /\ TagVRange(g)
    /\ validate_tag_string(g)
    /\ IF req.upgrade
       THEN ValidateTag(g) = "ok"
       ELSE \E q \in 1..Len(trace) : trace[q].op = "build" /\ trace[q].tag = g

\* C38: the workflow creates no tag, standard or "-release", whose name has
\* not passed the tag validation earlier in the same run.
C38_TagsValidatedFirst ==
    [][\A g \in TagNames : (tags[g] = 0 /\ tags'[g] # 0) => PassedValidation(g)]_vars

\* A standard run has validated, built and then tagged two targets.
C38_Witness ==
    /\ ~req.upgrade
    /\ \E p \in Events({"tag"}), q \in Events({"tag"}) :
          /\ p < q
          /\ trace[p].tag # trace[q].tag
          /\ \A r \in {p, q} :
                \E b \in Events({"build"}) : b < r /\ trace[b].tag = trace[r].tag



\* The run has ended: sys.exit(0), or an abort with a failure.
Terminated == wpc \in {"done", "failed"}

\* The tag of every target of the request is on the remote: the release tag
\* in a promotion, the standard tag otherwise.
AllTagsExist ==
    \A i \in 1..NumTargets :
        get_tag(IF req.upgrade THEN ReleaseTag(TagOf(req.targets[i]))
                ELSE TagOf(req.targets[i]))

\* How far a run is from its end: the phase of main, then the passes of the
\* loop the run is in that are still to come, then the steps of the
\* push_release call under way that are still to come.
PhaseRank(pc) ==
    CASE pc = "start" -> 8
      [] pc = "loop" -> 7
      [] pc \in {"commit", "changelog"} -> 6
      [] pc = "tagging" -> 5
      [] pc = "publish" -> 4
      [] pc = "pushing" -> 3
      [] pc = "closing" -> 2
      [] OTHER -> 0

StepRank(pc) ==
    CASE pc = "clone" -> 8
      [] pc = "copy" -> 7
      [] pc = "sums" -> 6
      [] pc = "info" -> 5
      [] pc = "add" -> 4
      [] pc = "diff" -> 3
      [] pc = "commit" -> 2
      [] pc = "push" -> 1
      [] OTHER -> 0

Rank == PhaseRank(wpc) * 100 + (NumTargets + 1 - wi) * 10 + StepRank(hpc[W])

\* The run can take a step.  In the step "sums" of push_release the step is
\* WriteChecksums, which has an outcome in every state: the file is written,
\* or the call raises.
CanStep ==
    \/ wpc = "pushing" /\ hpc[W] = "sums"
    \/ ENABLED (hpc[W] # "sums" /\ Next)

\* C39: every run ends, with a failure or with exit status 0: a run that has
\* not ended can take a step, and every step it takes brings it nearer to its
\* end; and a run that ends with status 0 has the tag of every target on the
\* remote.
C39_TerminatesWithTags ==
    /\ [](wpc = "done" => AllTagsExist)
    /\ [](~Terminated => (Rank > 0 /\ CanStep))
    /\ [][~Terminated => Rank' < Rank]_vars

\* A run of two targets has reached exit status 0.
C39_Witness ==
    /\ wpc = "done"
    /\ NumTargets = 2
    /\ req.targets[1] # req.targets[2]
    /\ AllTagsExist



\* C40: a run that has ended has closed the handle its publish phase made, if
\* it made one, and leaves the clone pool empty and no working copy on disk.
C40_ReleasesWhatItAcquires ==
    Terminated =>
        /\ hpc[W] # "unborn" => (hpc[W] = "idle" /\ closes[W] >= 1)
        /\ \A k \in Keys : ~repos[k].present
        /\ \A p \in Paths : disk[p] = "absent"

\* A run has ended whose handle cloned the store, had a publish call fail and
\* was closed.
C40_Witness ==
    /\ wpc = "done"
    /\ closes[W] >= 1
    /\ cloneDone[StoreKey] > 0
    /\ \E p \in 1..Len(trace) : trace[p].op = "publish_failed"


=============================================================================
